---- MODULE Spec2Model ----
(***************************************************************************)
(* A model of pynetgene's evolution engine (src/netgene/ga.py):            *)
(* GeneticAlgorithm.evolve, its generation step (_evolve_generation,       *)
(* _evolution_task, _parents_supplier, _crossover, _mutate), the parallel  *)
(* fitness evaluation (_calculate_population_fitness) and the stop         *)
(* conditions.  Individuals are objects: an identity, a chromosome and a   *)
(* fitness, kept in a heap (chromosome, fitness) indexed by identity; a    *)
(* population is a sequence of identities, so that two slots holding the   *)
(* same object alias each other exactly as Python references do.           *)
(***************************************************************************)
EXTENDS Integers, Sequences, FiniteSets, TLC

\* ---------------------------------------------------------------- bounds
\* largest initial population
MaxPop == 2
\* largest max_generation, and largest generation counter of the population passed in
MaxGen == 2
\* fitness values a callback may assign are 0..MaxFit
MaxFit == 1
\* largest configured worker count n_threads
MaxThreads == 2

\* Individual.fitness before any evaluation
INITIAL_FITNESS == 0
\* Population.generation of a newly built Population
INITIAL_GENERATION == 0
\* max_workers of a ThreadPoolExecutor() built without arguments:
\* min(32, cpu_count + 4), which is at least 5
DEFAULT_MAX_WORKERS == 5

\* no generation step is started once the counter has reached this value
GenCap == MaxGen + 1

FitVals == 0..MaxFit
\* a chromosome is abstracted to one bit allele
Alleles == BOOLEAN

VARIABLES
  \* ---- GeneticAlgorithm configuration (ga.py __init__)
  elitism, elitism_size, max_generation, target_fitness,
  skip_crossover, skip_mutation, n_threads,
  single_offspring,      \* crossover_operator.has_single_offspring()
  generation_tracker,    \* TRUE when a tracker is set, FALSE when it is None
  mutation_rate, crossover_rate,   \* in hundredths: 100 is 1.0
  parent_selector, crossover_operator, mutator_operator,
  mutator_rates,         \* mutator object -> its own mutation_rate attribute
  custom_stop_conditions,\* what set_custom_stop_condition appended to _stop_conditions
  executor_shutdown,     \* self._executor has been shut down
  \* ---- the engine's population and the heap of individuals
  population,            \* self._population: sequence of individual identities
  generation,            \* self._population.generation
  chromosome,            \* identity -> allele
  fitness,               \* identity -> fitness
  next_id,               \* the next fresh identity
  \* ---- control state of evolve / _evolve_generation / _evolution_task
  pc,
  generation_number, limit, elite_individuals, new_population,
  individual_stream,
  attempt,               \* the index `_` of the loop over range(limit)
  mutate_index,          \* position of the mutation loop in individual_stream
  thrown,                \* the exception the last operator call of the step
                         \* raised, "none" when it returned and once the
                         \* reproduction and mutation loops are over; from
                         \* then on "Exception" when a fitness callback of the
                         \* step has raised
  tasks,                 \* executor.map work items, one per population slot
  result,                \* evolve's local: the GenerationResult of the last step
  \* ---- history (not program state)
  initial_size, initial_generation,
  steps,                 \* generation steps completed
  evaluations,           \* identity -> fitness callback invocations in this step
  elite_chromosomes,     \* chromosomes of elite_individuals when the step began
  reached_at,            \* the fewest completed steps after which the best
                         \* individual's fitness was >= target_fitness, or -1
  tracked,               \* calls of the generation tracker so far
  \* ---- the caller configuring an engine (ConfigSpec)
  call,                  \* the last constructor or setter call and how it ended
  calls,                 \* constructor and setter calls made so far
  \* ---- a chromosome and its copy (ChromosomeSpec)
  variant,               \* the chromosome class: Bit, Integer, Float, Permutation
  lists,                 \* the heap of Python list objects: identity -> alleles
  self_genes,            \* identity of the list the chromosome's _genes refers to
  copy_genes,            \* the same for the chromosome copy() returned, 0 before
  copy_variant,          \* the class of the chromosome copy() returned
  target,                \* the chromosome the last call was made on: self or copy
  raised,                \* the exception the last chromosome call raised, or "none"
  \* ---- a crossover operator and two parents (CrossoverSpec)
  first_parent,          \* the first parent's chromosome: its class and alleles
  second_parent,         \* the same for the second parent
  operator,              \* the operator object recombine was last called on
  offspring,             \* the chromosomes the last recombine returned
  recombined,            \* how the last recombine ended, "none" before the first
  \* ---- a parent selector and a population (SelectionSpec)
  selector,              \* the selector object: its class and its settings
  individuals,           \* the population passed in: position -> fitness
  called,                \* the method called: select or select_parents
  selected,              \* the positions of the individuals drawn last
  selection,             \* where the call is: idle, drawn, returned, or raised
  retried                \* whether the call has drawn a second time

vars == << elitism, elitism_size, max_generation, target_fitness,
           skip_crossover, skip_mutation, n_threads, single_offspring,
           generation_tracker, executor_shutdown,
           population, generation, chromosome, fitness, next_id,
           pc, generation_number, limit, elite_individuals, new_population,
           individual_stream, attempt, mutate_index, thrown, tasks, result,
           initial_size, initial_generation, steps, evaluations,
           elite_chromosomes, reached_at, tracked,
           mutation_rate, crossover_rate, parent_selector, crossover_operator,
           mutator_operator, mutator_rates, custom_stop_conditions, call, calls,
           variant, lists, self_genes, copy_genes, copy_variant, target, raised,
           first_parent, second_parent, operator, offspring, recombined,
           selector, individuals, called, selected, selection, retried >>

config == << elitism, elitism_size, max_generation, target_fitness,
             skip_crossover, skip_mutation, n_threads, single_offspring,
             generation_tracker,
             mutation_rate, crossover_rate, parent_selector, crossover_operator,
             mutator_operator, mutator_rates, custom_stop_conditions >>

\* a chromosome object, its copy and the last call on them
chromosomes == << variant, lists, self_genes, copy_genes, copy_variant, target,
                 raised >>

\* two parents, a crossover operator and what its last call returned
crossing == << first_parent, second_parent, operator, offspring, recombined >>

\* a selector, the population it is given and the call made on it
selecting == << selector, individuals, called, selected, selection, retried >>

\* the state of the calls modelled apart from a run of evolve
apart == << call, calls, chromosomes, crossing, selecting >>

locals == << generation_number, limit, elite_individuals, new_population,
             individual_stream, attempt, mutate_index, thrown >>

heap == << chromosome, fitness, next_id >>

history == << initial_size, initial_generation, steps, evaluations,
              elite_chromosomes, reached_at, tracked >>

\* ---------------------------------------------------------------- helpers
Range(s) == { s[i] : i \in 1..Len(s) }

\* Python's s[:k]: the first k elements, all of s when k > len(s), and for a
\* negative k everything but the last -k elements.
PySliceTo(s, k) ==
  LET n == Len(s)
      m == IF k >= 0 THEN (IF k < n THEN k ELSE n)
                     ELSE (IF n + k > 0 THEN n + k ELSE 0)
  IN  SubSeq(s, 1, m)

\* Population.sort(): descending fitness, equal fitness keeps its order.
RECURSIVE SortFrom(_, _, _)
SortFrom(s, f, v) ==
  IF v < 0 THEN << >>
  ELSE SelectSeq(s, LAMBDA x : f[x] = v) \o SortFrom(s, f, v - 1)

MaxOf(S) == CHOOSE x \in S : \A y \in S : y <= x

SortDescending(s, f) ==
  IF s = << >> THEN << >> ELSE SortFrom(s, f, MaxOf({ f[x] : x \in Range(s) }))

\* Population.get_best_individual(): the first individual
get_best_individual(pop) == pop[1]

\* ---------------------------------------------------------------- values
\* Python's None, and a value that is no operator (a str, an int)
None == "None"
NotAnOperator == "not an operator"

\* the operator objects a caller has at hand, one of each class
Selectors == {"RandomSelector", "RankSelector"}
Crossovers == {"OnePointCrossover", "TwoPointCrossover"}
Mutators == {"GaussianMutator", "IntegerMutator"}

\* isinstance(x, bool), for the values "True", "False", "not a boolean"
IsBool(x) == x \in {"True", "False"}

\* no constructor or setter has been called on the engine yet
NoCall == [op |-> "none", arg |-> "none", raised |-> "none", message |-> ""]

\* the arguments GeneticConfiguration.__init__ takes by default (lines
\* 266-271), with the values of the tests' setup for those the model needs
\* finite (max_generation) and one worker thread
DefaultArgs ==
  [parent_selector |-> None, crossover_operator |-> None,
   mutator_operator |-> None, crossover_rate |-> 80, mutation_rate |-> 5,
   elitism |-> "True", elitism_size |-> 1, max_generation |-> 100,
   n_threads |-> 1]

\* the engine GeneticConfiguration(DefaultArgs).get_algorithm() builds
DefaultEngine ==
  /\ mutation_rate = DefaultArgs.mutation_rate
  /\ crossover_rate = DefaultArgs.crossover_rate
  /\ parent_selector = "RandomSelector"
  /\ crossover_operator = "OnePointCrossover"
  /\ mutator_operator = "GaussianMutator"
  /\ mutator_rates = [m \in Mutators |-> DefaultArgs.mutation_rate]
  /\ custom_stop_conditions = << >>

\* no chromosome is being exercised on its own
NoChromosome ==
  /\ variant = "none"
  /\ lists = << >>
  /\ self_genes = 0
  /\ copy_genes = 0
  /\ copy_variant = "none"
  /\ target = "none"
  /\ raised = "none"

\* recombine has not been called on any operator
NoOperator == [name |-> "none"]

\* no crossover operator is being exercised on its own
NoCrossover ==
  /\ first_parent = << >>
  /\ second_parent = << >>
  /\ operator = NoOperator
  /\ offspring = << >>
  /\ recombined = "none"

\* no selector is being exercised on its own
NoSelection ==
  /\ selector = [name |-> "none"]
  /\ individuals = << >>
  /\ called = "none"
  /\ selected = << >>
  /\ selection = "idle"
  /\ retried = FALSE

\* evolve's local `result` before the first generation step has returned
NoResult == [best_individual |-> 0, best_fitness |-> 0, generation_number |-> -1]

\* ---------------------------------------------------------------- construction
\* The engine after GeneticAlgorithm.__init__ (and the setters a caller may
\* use before evolve), at the entry of evolve(population, fitness_function):
\* lines 126-127 have stored the population, the loop has not started.
Init ==
  /\ elitism \in BOOLEAN
  /\ elitism_size \in 0..MaxPop
  \* elitism_size is read only when elitism is on: 1 stands for every size then
  /\ elitism \/ elitism_size = 1
  /\ max_generation \in 1..MaxGen
  /\ target_fitness \in 1..(MaxFit + 1)
  /\ skip_crossover \in BOOLEAN
  /\ skip_mutation \in BOOLEAN
  /\ n_threads \in 1..MaxThreads
  /\ single_offspring \in BOOLEAN
  \* has_single_offspring() is read only when crossover is not skipped
  /\ skip_crossover => ~single_offspring
  /\ generation_tracker \in BOOLEAN
  /\ DefaultEngine
  /\ call = NoCall
  /\ calls = 0
  /\ NoChromosome
  /\ NoCrossover
  /\ NoSelection
  /\ executor_shutdown = FALSE
  /\ \E n \in 1..MaxPop :
       /\ population = [i \in 1..n |-> i]
       \* chromosomes differ once mutation and crossover have acted
       /\ chromosome = [i \in 1..n |-> FALSE]
       /\ fitness \in [1..n -> FitVals]
       /\ next_id = n + 1
       /\ initial_size = n
       /\ evaluations = [i \in 1..n |-> 0]
  /\ generation \in 0..MaxGen
  /\ initial_generation = generation
  /\ pc = "check"
  /\ generation_number = 0
  /\ limit = 0
  /\ elite_individuals = << >>
  /\ new_population = << >>
  /\ individual_stream = << >>
  /\ attempt = 0
  /\ mutate_index = 1
  /\ thrown = "none"
  /\ tasks = << >>
  /\ result = NoResult
  /\ tracked = 0
  /\ steps = 0
  /\ elite_chromosomes = << >>
  /\ reached_at =
       IF fitness[get_best_individual(population)] >= target_fitness THEN 0 ELSE -1

\* ---------------------------------------------------------------- stop conditions
\* (mutation for C4: the limit is compared one generation early)
max_generation_stop_off_by_one == generation = max_generation - 1

\* lambda population: population.generation == self._max_generation
max_generation_stop == generation = max_generation

\* (mutation for C5: the target must be exceeded, not reached)
target_fitness_stop_strict ==
  target_fitness < fitness[get_best_individual(population)]

\* lambda population: self._target_fitness <= population.get_best_individual().fitness
\* (the population is never empty at a stop check: evolve is entered with at
\* least one individual and a step that empties the population raises)
target_fitness_stop ==
  target_fitness <= fitness[get_best_individual(population)]

\* any(stop_condition(self._population) for stop_condition in self._stop_conditions)
has_reached_stop_condition == max_generation_stop \/ target_fitness_stop

\* ---------------------------------------------------------------- evolve
\* evolve, lines 129 and 133: a stop condition holds, the executor is shut
\* down and evolve returns.
Return ==
  /\ pc = "check"
  /\ has_reached_stop_condition
  /\ executor_shutdown' = TRUE
  /\ pc' = "returned"
  /\ UNCHANGED << config, apart, population, generation, heap, locals, tasks, result,
                  history >>

\* limit = len(population) - elitism_size if elitism else len(population)
Limit ==
  IF elitism THEN Len(population) - elitism_size ELSE Len(population)

\* elite_individuals = self._population[:self._elitism_size], or none
EliteIndividuals ==
  IF elitism THEN PySliceTo(population, elitism_size) ELSE << >>

\* for _ in range(limit): if len(individual_stream) >= limit: break
\* the loop over reproduction attempts is over
LoopDone(a, stream, l) == ~(a < l /\ Len(stream) < l)

\* evolve line 129-130 and _evolve_generation lines 137-148, then the entry of
\* _evolution_task (163, and 183 when crossover is skipped).
BeginGeneration ==
  /\ pc = "check"
  /\ ~has_reached_stop_condition
  /\ generation < GenCap
  /\ generation_number' = generation
  /\ limit' = Limit
  /\ elite_individuals' = EliteIndividuals
  /\ new_population' = EliteIndividuals
  /\ individual_stream' =
       IF skip_crossover THEN PySliceTo(population, Limit) ELSE << >>
  /\ attempt' = 0
  /\ mutate_index' = 1
  /\ thrown' = "none"
  /\ elite_chromosomes' =
       [k \in 1..Len(EliteIndividuals) |-> chromosome[EliteIndividuals[k]]]
  /\ evaluations' = [i \in DOMAIN evaluations |-> 0]
  \* the result of the step before is not read again: line 130 rebinds it
  /\ result' = NoResult
  /\ pc' = IF skip_crossover \/ LoopDone(0, << >>, Limit)
             THEN "mutate" ELSE "reproduce"
  /\ UNCHANGED << config, apart, executor_shutdown, population, generation, heap, tasks,
                  initial_size, initial_generation, steps, reached_at, tracked >>

\* ---------------------------------------------------------------- reproduction
\* CrossoverOperator.recombine(first_parent, second_parent) on parents with
\* alleles a and b: one or two new individuals whose alleles come from the
\* parents.
RecombineOffspring(a, b) ==
  IF single_offspring THEN { << x >> : x \in {a, b} }
  ELSE { << x, y >> : x \in {a, b}, y \in {a, b} }

\* _crossover, lines 229-235: a copy of the first parent's chromosome and,
\* unless the operator has a single offspring, of the second parent's.
CopyOffspring(a, b) == IF single_offspring THEN << a >> ELSE << a, b >>

\* _evolution_task, lines 176-180: the children are appended while the stream
\* is shorter than limit; each child kept is a new Individual.
AddChildren(kids) ==
  LET kept == PySliceTo(kids, limit - Len(individual_stream))
      ids  == [i \in 1..Len(kept) |-> next_id + i - 1]
      new  == Range(ids)
  IN  /\ individual_stream' = individual_stream \o ids
      /\ chromosome' = [i \in DOMAIN chromosome \cup new |->
                          IF i \in new THEN kept[i - next_id + 1] ELSE chromosome[i]]
      /\ fitness' = [i \in DOMAIN fitness \cup new |->
                          IF i \in new THEN INITIAL_FITNESS ELSE fitness[i]]
      /\ evaluations' = [i \in DOMAIN evaluations \cup new |->
                          IF i \in new THEN 0 ELSE evaluations[i]]
      /\ next_id' = next_id + Len(kept)
      /\ attempt' = attempt + 1
      /\ pc' = IF LoopDone(attempt + 1, individual_stream \o ids, limit)
                 THEN "mutate" ELSE "reproduce"

\* the operator calls of a generation step and the exception handled around
\* each: except SelectionException (204), except CrossoverException (225),
\* except MutatorException (243)
Handled ==
  [select_parents |-> "SelectionException", recombine |-> "CrossoverException",
   mutate |-> "MutatorException"]

\* what an operator call may raise: the exception of its operator family, or
\* a chromosome's domain error (GaException)
Raisable(site) == {Handled[site], "GaException"}

\* every exception leaves the generation step
PropagatesAlways(site, exception) == TRUE

\* an exception raised at `site` leaves the try statement around it, and with
\* it _evolution_task, _evolve_generation and evolve, which have none
Propagates(site, exception) == exception # Handled[site]

\* One iteration of the loop of _evolution_task (lines 167-180) that yields no
\* child: _parents_supplier caught a SelectionException and returned None
\* (204-209), or _crossover caught a CrossoverException and returned the empty
\* Offspring (225-227).
AttemptFails ==
  /\ pc = "reproduce"
  /\ \E site \in {"select_parents", "recombine"} :
       \E exception \in Raisable(site) :
         /\ ~Propagates(site, exception)
         /\ thrown' = exception
  /\ attempt' = attempt + 1
  /\ pc' = IF LoopDone(attempt + 1, individual_stream, limit)
             THEN "mutate" ELSE "reproduce"
  /\ UNCHANGED << config, apart, executor_shutdown, result, population, generation, heap,
                  generation_number, limit, elite_individuals, new_population,
                  individual_stream, mutate_index, tasks, history >>

\* One iteration in which select_parents or recombine raises an exception
\* that the try statement around it does not name.
AttemptRaises ==
  /\ pc = "reproduce"
  /\ \E site \in {"select_parents", "recombine"} :
       \E exception \in Raisable(site) :
         /\ Propagates(site, exception)
         /\ thrown' = exception
  /\ pc' = "raised"
  /\ UNCHANGED << config, apart, executor_shutdown, result, population, generation, heap,
                  generation_number, limit, elite_individuals, new_population,
                  individual_stream, attempt, mutate_index, tasks, history >>

\* One iteration whose crossover runs (self._crossover_rate > random_value,
\* lines 221-224): the parents are two individuals of the current population.
AttemptRecombine ==
  /\ pc = "reproduce"
  /\ \E p1 \in Range(population), p2 \in Range(population) :
       \E kids \in RecombineOffspring(chromosome[p1], chromosome[p2]) :
         AddChildren(kids)
  /\ thrown' = "none"
  /\ UNCHANGED << config, apart, executor_shutdown, result, population, generation,
                  generation_number, limit, elite_individuals, new_population,
                  mutate_index, tasks, initial_size, initial_generation, steps,
                  elite_chromosomes, reached_at, tracked >>

\* One iteration whose crossover is not drawn (lines 228-235): the children are
\* copies of the parents.
AttemptCopy ==
  /\ pc = "reproduce"
  /\ \E p1 \in Range(population), p2 \in Range(population) :
       AddChildren(CopyOffspring(chromosome[p1], chromosome[p2]))
  /\ thrown' = "none"
  /\ UNCHANGED << config, apart, executor_shutdown, result, population, generation,
                  generation_number, limit, elite_individuals, new_population,
                  mutate_index, tasks, initial_size, initial_generation, steps,
                  elite_chromosomes, reached_at, tracked >>

\* _mutate(individual), lines 239-245, on the next individual of the stream:
\* the mutator changes the chromosome in place (or leaves it: the rate was not
\* drawn).
Mutate ==
  /\ pc = "mutate"
  /\ ~skip_mutation
  /\ mutate_index <= Len(individual_stream)
  /\ \E a \in Alleles :
       chromosome' = [chromosome EXCEPT ![individual_stream[mutate_index]] = a]
  /\ mutate_index' = mutate_index + 1
  /\ thrown' = "none"
  /\ UNCHANGED << config, apart, executor_shutdown, result, population, generation, fitness,
                  next_id, pc, generation_number, limit, elite_individuals,
                  new_population, individual_stream, attempt, tasks, history >>

\* _mutate, lines 243-245: the mutator raised a MutatorException before it
\* changed anything; it is caught and logged, the loop goes on.
MutateFails ==
  /\ pc = "mutate"
  /\ ~skip_mutation
  /\ mutate_index <= Len(individual_stream)
  /\ \E exception \in Raisable("mutate") :
       /\ ~Propagates("mutate", exception)
       /\ thrown' = exception
  /\ mutate_index' = mutate_index + 1
  /\ UNCHANGED << config, apart, executor_shutdown, result, population, generation, heap,
                  pc, generation_number, limit, elite_individuals,
                  new_population, individual_stream, attempt, tasks, history >>

\* _mutate catches MutatorException only: any other exception of the mutator
\* (a chromosome's domain error) leaves the generation step and evolve.
MutateRaises ==
  /\ pc = "mutate"
  /\ ~skip_mutation
  /\ mutate_index <= Len(individual_stream)
  /\ \E exception \in Raisable("mutate") :
       /\ Propagates("mutate", exception)
       /\ thrown' = exception
  /\ pc' = "raised"
  /\ UNCHANGED << config, apart, executor_shutdown, result, population, generation, heap,
                  generation_number, limit, elite_individuals, new_population,
                  individual_stream, attempt, mutate_index, tasks, history >>

\* _evolution_task, lines 190-195: the stream is added to the new population,
\* which replaces the engine's population; then _calculate_population_fitness
\* (252) hands one work item per individual of the population to its pool.
ReplacePopulation ==
  /\ pc = "mutate"
  /\ skip_mutation \/ mutate_index > Len(individual_stream)
  /\ LET pop == new_population \o individual_stream
         live == Range(pop)
     IN  /\ population' = pop
         /\ new_population' = pop
         /\ generation' = INITIAL_GENERATION
         /\ tasks' = [i \in 1..Len(pop) |-> [individual |-> pop[i], state |-> "pending"]]
         /\ chromosome' = [i \in live |-> chromosome[i]]
         /\ fitness' = [i \in live |-> fitness[i]]
         /\ evaluations' = [i \in live |-> evaluations[i]]
  \* the operator calls of the step are over
  /\ thrown' = "none"
  /\ pc' = "evaluate"
  /\ UNCHANGED << config, apart, executor_shutdown, result, next_id, generation_number, limit,
                  elite_individuals, individual_stream, attempt, mutate_index,
                  initial_size, initial_generation, steps, elite_chromosomes,
                  reached_at, tracked >>

\* ---------------------------------------------------------------- evaluation
\* _calculate_population_fitness, lines 251-252:
\*   with ThreadPoolExecutor() as executor:
\*       executor.map(self._fitness_function, self._population)
\* The pool is built here without arguments, so its size is the library's
\* default and not n_threads.
PoolWorkers == DEFAULT_MAX_WORKERS

Running == { i \in 1..Len(tasks) : tasks[i].state = "running" }

\* A worker of the pool takes the oldest waiting work item and calls the
\* fitness callback on its individual.
StartTask ==
  /\ \E i \in 1..Len(tasks) :
       /\ tasks[i].state = "pending"
       /\ \A j \in 1..(i - 1) : tasks[j].state # "pending"
       /\ Cardinality(Running) < PoolWorkers
       /\ tasks' = [tasks EXCEPT ![i].state = "running"]
       /\ evaluations' = [evaluations EXCEPT ![tasks[i].individual] = @ + 1]
  /\ UNCHANGED << config, apart, executor_shutdown, result, population, generation, heap, pc,
                  locals, initial_size, initial_generation, steps,
                  elite_chromosomes, reached_at, tracked >>

\* The callback returns, having set (or left) the individual's fitness.
FinishTask ==
  /\ \E i \in Running :
       /\ \E v \in FitVals :
            fitness' = [fitness EXCEPT ![tasks[i].individual] = v]
       /\ tasks' = [tasks EXCEPT ![i].state = "done"]
  /\ UNCHANGED << config, apart, executor_shutdown, result, population, generation, chromosome,
                  next_id, pc, locals, history >>

\* The callback raises: the exception is kept in the work item's future, which
\* nothing reads (the iterator executor.map returns is dropped).
FitnessRaises ==
  /\ \E i \in Running :
       tasks' = [tasks EXCEPT ![i].state = "done"]
  /\ thrown' = "Exception"
  /\ UNCHANGED << config, apart, executor_shutdown, result, population, generation, heap, pc,
                  generation_number, limit, elite_individuals, new_population,
                  individual_stream, attempt, mutate_index, history >>

\* (mutation for C7: the pool is left without waiting for its work items)
BarrierNotWaiting == TRUE

\* Leaving the with block shuts the pool down and waits for every work item
\* handed to it.
Barrier == \A i \in 1..Len(tasks) : tasks[i].state = "done"

\* (mutation for C6: the new population's own counter is incremented, the
\* counter of the replaced population is not carried over)
IncrementedFromNewPopulation == generation + 1

\* self._population.generation = generation_number + 1
IncrementedGeneration == generation_number + 1

\* (mutation for C11: the result carries the counter read when the step
\* began, not the incremented one)
GenerationResultOfOldCounter(individual, number) ==
  [best_individual |-> individual, best_fitness |-> fitness[individual],
   generation_number |-> generation_number]

\* GenerationResult.__init__(evolution_duration, evaluation_duration,
\* individual, generation_number), lines 473-478; the durations are left out.
GenerationResult(individual, number) ==
  [best_individual |-> individual, best_fitness |-> fitness[individual],
   generation_number |-> number]

\* _evolve_generation, lines 156-160, once the evaluation has returned: sort,
\* set the counter, build the GenerationResult from the best individual; back
\* in evolve (131) the tracker is called when one is set.
FinishGeneration ==
  /\ pc = "evaluate"
  /\ Barrier
  /\ population # << >>
  /\ LET sorted == SortDescending(population, fitness)
     IN  /\ population' = sorted
         /\ reached_at' =
              IF reached_at = -1 /\ fitness[get_best_individual(sorted)] >= target_fitness
                THEN steps + 1 ELSE reached_at
         /\ result' = GenerationResult(get_best_individual(sorted),
                                       IncrementedGeneration)
  /\ generation' = IncrementedGeneration
  /\ steps' = steps + 1
  /\ pc' = IF generation_tracker THEN "track" ELSE "check"
  /\ UNCHANGED << config, apart, executor_shutdown, heap, locals, tasks, initial_size,
                  initial_generation, evaluations, elite_chromosomes, tracked >>

\* The same lines on an empty population: there is no best individual to
\* build the GenerationResult from (160, 477), and the step raises.
FinishGenerationRaises ==
  /\ pc = "evaluate"
  /\ Barrier
  /\ population = << >>
  /\ generation' = IncrementedGeneration
  /\ pc' = "raised"
  /\ UNCHANGED << config, apart, executor_shutdown, result, population, heap, locals, tasks,
                  history >>

\* evolve, line 132: self._generation_tracker(self, result) returns.
Track ==
  /\ pc = "track"
  /\ tracked' = tracked + 1
  /\ pc' = "check"
  /\ UNCHANGED << config, apart, executor_shutdown, result, population, generation, heap,
                  locals, tasks, initial_size, initial_generation, steps,
                  evaluations, elite_chromosomes, reached_at >>

\* evolve, line 132: the tracker raises, and the exception leaves evolve.
TrackerRaises ==
  /\ pc = "track"
  /\ tracked' = tracked + 1
  /\ pc' = "raised"
  /\ UNCHANGED << config, apart, executor_shutdown, result, population, generation, heap,
                  locals, tasks, initial_size, initial_generation, steps,
                  evaluations, elite_chromosomes, reached_at >>

Next ==
  \/ Return
  \/ BeginGeneration
  \/ AttemptFails
  \/ AttemptRaises
  \/ AttemptRecombine
  \/ AttemptCopy
  \/ Mutate
  \/ MutateFails
  \/ MutateRaises
  \/ ReplacePopulation
  \/ StartTask
  \/ FinishTask
  \/ FitnessRaises
  \/ FinishGeneration
  \/ FinishGenerationRaises
  \/ Track
  \/ TrackerRaises

Spec == Init /\ [][Next]_vars

\* evolve runs on: the engine's thread is scheduled, the workers of the pool
\* take the work items handed to them, and every operator, callback and
\* tracker call comes to an end.
LiveSpec == Spec /\ WF_vars(Next)

\* ================================================================ configuration
\* A caller holding an engine calls the constructors and the engine's setters.
\* The engine's fields are the configuration variables above; a constructor
\* that returns replaces the engine held, one that raises leaves it.

\* most constructor and setter calls in one behaviour
MaxCalls == 2

\* rates a caller passes, in hundredths: -0.1, 0.0, 0.5, 1.0, 1.1
RateVals == {-10, 0, 50, 100, 110}

\* argument lists of a constructor call: the defaults with one argument given
ConstructorArgs ==
  {[DefaultArgs EXCEPT !.mutation_rate = v] : v \in RateVals}
    \cup {[DefaultArgs EXCEPT !.crossover_rate = v] : v \in RateVals}
    \cup {[DefaultArgs EXCEPT !.elitism = v] : v \in {"False", "not a boolean"}}
    \cup {[DefaultArgs EXCEPT !.elitism_size = v] : v \in {-1, 0}}
    \cup {[DefaultArgs EXCEPT !.max_generation = v] : v \in {0, 1}}
    \cup {[DefaultArgs EXCEPT !.n_threads = v] : v \in {0, 2}}
    \cup {[DefaultArgs EXCEPT !.parent_selector = v] : v \in {"RankSelector", NotAnOperator}}
    \cup {[DefaultArgs EXCEPT !.crossover_operator = v] : v \in {"TwoPointCrossover", NotAnOperator}}
    \cup {[DefaultArgs EXCEPT !.mutator_operator = v] : v \in {"IntegerMutator", NotAnOperator}}

NoError == [raised |-> "none", message |-> ""]
Error(exception, text) == [raised |-> exception, message |-> text]

\* the engine's fields
engine == << elitism, elitism_size, max_generation, n_threads,
             generation_tracker, mutation_rate, crossover_rate, parent_selector,
             crossover_operator, mutator_operator, mutator_rates,
             custom_stop_conditions >>

\* the state of a run of evolve
run == << executor_shutdown, population, generation, heap, pc, locals, tasks,
          result, history >>

\* what no constructor or setter call touches
evolving == << target_fitness, skip_crossover, skip_mutation, single_offspring,
               run, chromosomes, crossing, selecting >>

\* An engine that is configured, not evolving: after
\* GeneticConfiguration(elitism_size=1, max_generation=100,
\* target_fitness=3.0).get_algorithm(), the setup of the tests.
Idle ==
  /\ elitism = TRUE
  /\ elitism_size = DefaultArgs.elitism_size
  /\ max_generation = DefaultArgs.max_generation
  /\ n_threads = DefaultArgs.n_threads
  /\ generation_tracker = FALSE
  /\ DefaultEngine
  /\ call = NoCall
  /\ calls = 0
  /\ target_fitness = 3
  /\ skip_crossover = FALSE
  /\ skip_mutation = FALSE
  /\ single_offspring = FALSE
  /\ executor_shutdown = FALSE
  /\ population = << >>
  /\ generation = INITIAL_GENERATION
  /\ chromosome = << >>
  /\ fitness = << >>
  /\ next_id = 1
  /\ pc = "configured"
  /\ generation_number = 0
  /\ limit = 0
  /\ elite_individuals = << >>
  /\ new_population = << >>
  /\ individual_stream = << >>
  /\ attempt = 0
  /\ mutate_index = 1
  /\ thrown = "none"
  /\ tasks = << >>
  /\ result = NoResult
  /\ initial_size = 0
  /\ initial_generation = INITIAL_GENERATION
  /\ steps = 0
  /\ evaluations = << >>
  /\ elite_chromosomes = << >>
  /\ reached_at = -1
  /\ tracked = 0

ConfigInit == Idle /\ NoChromosome /\ NoCrossover /\ NoSelection

\* a call ends: it is recorded, and nothing of a running evolve is touched
Called(op, arg, error) ==
  /\ call' = [op |-> op, arg |-> arg, raised |-> error.raised,
              message |-> error.message]
  /\ calls' = calls + 1
  /\ UNCHANGED evolving

\* GeneticConfiguration.__init__, lines 272-307: the first check that fails.
\* Line 280 sets an attribute of the mutator operator, which a value that is
\* no object with attributes (a str, an int) does not allow.
GeneticConfigurationError(a) ==
  LET mutator == IF a.mutator_operator # None
                   THEN a.mutator_operator ELSE "GaussianMutator"
  IN  IF a.mutation_rate <= 0
        THEN Error("GaException", "Mutation rate value cannot be negative")
      ELSE IF a.mutation_rate > 100
        THEN Error("GaException", "Mutation rate value cannot be higher than 1.0")
      ELSE IF mutator \notin Mutators
        THEN Error("AttributeError", "object has no attribute 'mutation_rate'")
      ELSE IF a.crossover_rate <= 0
        THEN Error("GaException", "Crossover rate value cannot be negative")
      ELSE IF a.crossover_rate > 100
        THEN Error("GaException", "Crossover rate value cannot be higher than 1.0")
      ELSE IF ~IsBool(a.elitism)
        THEN Error("GaException", "Elitism must be a boolean value")
      ELSE IF a.elitism_size < 0
        THEN Error("GaException", "Elitism size cannot be negative")
      ELSE IF a.max_generation <= 0
        THEN Error("GaException", "Maximum generation cannot be lower than 1")
      ELSE IF a.n_threads < 1
        THEN Error("GaException", "Thread Pool Size cannot be lower than 1")
      ELSE NoError

\* GeneticConfiguration.__init__, lines 272-274: the fields the configuration
\* holds, a default operator in place of each None.
Configured(a) ==
  [a EXCEPT
     !.parent_selector = IF @ # None THEN @ ELSE "RandomSelector",
     !.crossover_operator = IF @ # None THEN @ ELSE "OnePointCrossover",
     !.mutator_operator = IF @ # None THEN @ ELSE "GaussianMutator"]

\* MutatorOperator.mutation_rate (setter): rates outside [0.0, 1.0] are refused
MutatorRefuses(rate) == ~(0 <= rate /\ rate <= 100)

\* GeneticAlgorithm.__init__, lines 24-49: no argument is checked.  Line 28
\* sets the mutator's mutation_rate, which fails on a value without
\* attributes (None, a str) and when the mutator refuses the rate; line 38
\* builds ThreadPoolExecutor(max_workers=n_threads), which raises ValueError
\* for max_workers <= 0.
GeneticAlgorithmError(a) ==
  IF a.mutator_operator \notin Mutators
    THEN Error("AttributeError", "object has no attribute 'mutation_rate'")
  ELSE IF MutatorRefuses(a.mutation_rate)
    THEN Error("MutatorException", "mutation rate refused by the mutator")
  ELSE IF a.n_threads <= 0
    THEN Error("ValueError", "max_workers must be greater than 0")
  ELSE NoError

\* GeneticAlgorithm.__init__, lines 24-49: the arguments are stored as they
\* are; the new engine has no tracker and no custom stop condition.
Store(a) ==
  /\ parent_selector' = a.parent_selector
  /\ crossover_operator' = a.crossover_operator
  /\ mutator_operator' = a.mutator_operator
  /\ mutation_rate' = a.mutation_rate
  /\ mutator_rates' = [mutator_rates EXCEPT ![a.mutator_operator] = a.mutation_rate]
  /\ crossover_rate' = a.crossover_rate
  /\ elitism' = (a.elitism = "True")
  /\ elitism_size' = a.elitism_size
  /\ max_generation' = a.max_generation
  /\ n_threads' = a.n_threads
  /\ custom_stop_conditions' = << >>
  /\ generation_tracker' = FALSE

\* ga = GeneticConfiguration(...).get_algorithm(), lines 266-307 and 465-470
Configure ==
  /\ calls < MaxCalls
  /\ \E a \in ConstructorArgs :
       LET invalid == GeneticConfigurationError(a)
           error == IF invalid # NoError THEN invalid
                    ELSE GeneticAlgorithmError(Configured(a))
       IN  /\ Called("GeneticConfiguration", a, error)
           /\ IF error = NoError THEN Store(Configured(a)) ELSE UNCHANGED engine

\* argument lists of a direct call of GeneticAlgorithm(...), which has no
\* defaults: an operator object is passed where ConstructorArgs has None.  The
\* model's elitism field holds booleans, so elitism is passed as a boolean.
DirectArgs == { Configured(a) : a \in { b \in ConstructorArgs : IsBool(b.elitism) } }

\* ga = GeneticAlgorithm(...), called directly (lines 18-49)
Construct ==
  /\ calls < MaxCalls
  /\ \E a \in DirectArgs :
       LET error == GeneticAlgorithmError(a)
       IN  /\ Called("GeneticAlgorithm", a, error)
           /\ IF error = NoError THEN Store(a) ELSE UNCHANGED engine

\* ga.mutation_rate = v, lines 54-59
SetMutationRate ==
  /\ calls < MaxCalls
  /\ \E v \in RateVals :
       IF 0 <= v /\ v <= 100
         THEN /\ mutation_rate' = v
              /\ Called("mutation_rate", v, NoError)
              /\ UNCHANGED << elitism, elitism_size, max_generation, n_threads,
                              generation_tracker, crossover_rate, parent_selector,
                              crossover_operator, mutator_operator, mutator_rates,
                              custom_stop_conditions >>
         ELSE /\ Called("mutation_rate", v,
                        Error("ValueError", "Mutation rate must be between 0.0 and 1.0"))
              /\ UNCHANGED engine

\* ga.crossover_rate = v, lines 65-70: line 68 assigns self._mutation_rate
SetCrossoverRate ==
  /\ calls < MaxCalls
  /\ \E v \in RateVals :
       IF 0 <= v /\ v <= 100
         THEN /\ mutation_rate' = v
              /\ Called("crossover_rate", v, NoError)
              /\ UNCHANGED << elitism, elitism_size, max_generation, n_threads,
                              generation_tracker, crossover_rate, parent_selector,
                              crossover_operator, mutator_operator, mutator_rates,
                              custom_stop_conditions >>
         ELSE /\ Called("crossover_rate", v,
                        Error("ValueError", "Crossover rate must be between 0.0 and 1.0"))
              /\ UNCHANGED engine

\* ga.elitism = x, lines 76-82
SetElitism ==
  /\ calls < MaxCalls
  /\ \E x \in {"True", "False", "not a boolean"} :
       IF IsBool(x)
         THEN /\ elitism' = (x = "True")
              /\ Called("elitism", x, NoError)
              /\ UNCHANGED << elitism_size, max_generation, n_threads,
                              generation_tracker, mutation_rate, crossover_rate,
                              parent_selector, crossover_operator, mutator_operator,
                              mutator_rates, custom_stop_conditions >>
         ELSE /\ Called("elitism", x,
                        Error("ValueError", "Elitism must be either True or False"))
              /\ UNCHANGED engine

\* ga.elitism_size = n, lines 88-93
SetElitismSize ==
  /\ calls < MaxCalls
  /\ \E n \in {-1, 0, 10} :
       IF n < 0
         THEN /\ Called("elitism_size", n,
                        Error("GaException", "Elitism size cannot be negative"))
              /\ UNCHANGED engine
         ELSE /\ elitism_size' = n
              /\ Called("elitism_size", n, NoError)
              /\ UNCHANGED << elitism, max_generation, n_threads,
                              generation_tracker, mutation_rate, crossover_rate,
                              parent_selector, crossover_operator, mutator_operator,
                              mutator_rates, custom_stop_conditions >>

\* ga.mutator_operator = x, lines 107-111: only None is refused
SetMutatorOperator ==
  /\ calls < MaxCalls
  /\ \E x \in {None, "IntegerMutator", NotAnOperator} :
       IF x # None
         THEN /\ mutator_operator' = x
              /\ Called("mutator_operator", x, NoError)
              /\ UNCHANGED << elitism, elitism_size, max_generation, n_threads,
                              generation_tracker, mutation_rate, crossover_rate,
                              parent_selector, crossover_operator, mutator_rates,
                              custom_stop_conditions >>
         ELSE /\ Called("mutator_operator", x,
                        Error("GaException", "Mutator Operator cannot be None"))
              /\ UNCHANGED engine

\* ga.crossover_operator = x, lines 117-123: only None is refused
SetCrossoverOperator ==
  /\ calls < MaxCalls
  /\ \E x \in {None, "TwoPointCrossover", NotAnOperator} :
       IF x # None
         THEN /\ crossover_operator' = x
              /\ Called("crossover_operator", x, NoError)
              /\ UNCHANGED << elitism, elitism_size, max_generation, n_threads,
                              generation_tracker, mutation_rate, crossover_rate,
                              parent_selector, mutator_operator, mutator_rates,
                              custom_stop_conditions >>
         ELSE /\ Called("crossover_operator", x,
                        Error("GaException", "Crossover Operator cannot be None"))
              /\ UNCHANGED engine

\* ga.set_generation_tracker(tracker), lines 257-258: the argument is stored
set_generation_tracker ==
  /\ calls < MaxCalls
  /\ \E tracker \in {None, "tracker"} :
       /\ generation_tracker' = (tracker # None)
       /\ Called("set_generation_tracker", tracker, NoError)
  /\ UNCHANGED << elitism, elitism_size, max_generation, n_threads,
                  mutation_rate, crossover_rate, parent_selector,
                  crossover_operator, mutator_operator, mutator_rates,
                  custom_stop_conditions >>

\* ga.set_custom_stop_condition(c), lines 260-261: the argument is appended
set_custom_stop_condition ==
  /\ calls < MaxCalls
  /\ \E custom_stop_condition \in {None, "stop_condition"} :
       /\ custom_stop_conditions' = Append(custom_stop_conditions, custom_stop_condition)
       /\ Called("set_custom_stop_condition", custom_stop_condition, NoError)
  /\ UNCHANGED << elitism, elitism_size, max_generation, n_threads,
                  generation_tracker, mutation_rate, crossover_rate,
                  parent_selector, crossover_operator, mutator_operator,
                  mutator_rates >>

ConfigNext ==
  \/ Configure
  \/ Construct
  \/ SetMutationRate
  \/ SetCrossoverRate
  \/ SetElitism
  \/ SetElitismSize
  \/ SetMutatorOperator
  \/ SetCrossoverOperator
  \/ set_generation_tracker
  \/ set_custom_stop_condition

ConfigSpec == ConfigInit /\ [][ConfigNext]_vars

\* ================================================================ chromosomes
\* A chromosome (src/pynetgene/chromosome.py) and the chromosome its copy()
\* returned.  Alleles are Python values: a type and a numeric value, so that
\* True == 1 == 1.0 as in Python.

\* longest gene list
MaxLen == 2
\* integer alleles are 0..MaxAllele
MaxAllele == 1

IntAllele(n) == [type |-> "int", v |-> n]
FloatAllele(n) == [type |-> "float", v |-> n]
BoolAllele(b) == [type |-> "bool", v |-> IF b THEN 1 ELSE 0]
\* (None equals no number: its value is apart from every allele value)
NoneAllele == [type |-> "NoneType", v |-> -1]

\* x == y in Python
PyEq(x, y) ==
  IF x.type = "NoneType" \/ y.type = "NoneType" THEN x.type = y.type
  ELSE x.v = y.v

\* Chromosome.contains(gene): gene in self._genes
contains(genes, gene) == \E i \in 1..Len(genes) : PyEq(genes[i], gene)

Variants == {"Bit", "Integer", "Float", "Permutation"}

\* the alleles and the indices a caller passes
Inputs == { IntAllele(n) : n \in 0..MaxAllele } \cup {BoolAllele(TRUE), NoneAllele}
Indices == {-1, 0, MaxLen}

\* the gene lists the constructors build: BitChromosome(size) draws booleans,
\* IntegerChromosome(size, min, max) integers, FloatChromosome(size, min, max)
\* floats, PermutationChromosome(size, start) shuffles start..start+size-1;
\* without a size the list is empty.
ConstructedGenes(class) ==
  LET Lists(S) == UNION { [1..n -> S] : n \in 0..MaxLen }
  IN  CASE class = "Bit" -> Lists({BoolAllele(TRUE), BoolAllele(FALSE)})
        [] class = "Integer" -> Lists({ IntAllele(n) : n \in 0..MaxAllele })
        [] class = "Float" -> Lists({ FloatAllele(n) : n \in 0..MaxAllele })
        [] class = "Permutation" ->
             { g \in Lists({ IntAllele(n) : n \in 0..MaxAllele }) :
                 \E start \in 0..MaxAllele :
                   { g[i].v : i \in 1..Len(g) } = start..(start + Len(g) - 1) }

ChromosomeInit ==
  /\ Idle
  /\ NoCrossover
  /\ NoSelection
  /\ variant \in Variants
  /\ \E genes \in ConstructedGenes(variant) : lists = << genes >>
  /\ self_genes = 1
  /\ copy_genes = 0
  /\ copy_variant = "none"
  /\ target = "none"
  /\ raised = "none"

\* the chromosomes a call can be made on
Targets == {"self"} \cup (IF copy_genes # 0 THEN {"copy"} ELSE {})
ListOf(t) == IF t = "self" THEN self_genes ELSE copy_genes
Genes(t) == lists[ListOf(t)]
VariantOf(t) == IF t = "self" THEN variant ELSE copy_variant

\* what no chromosome call touches
rest == << config, call, calls, run, crossing, selecting >>

\* (mutation for C18: the copy refers to the list of the original)
SharedGenes == self_genes

\* copy(): new_chromosome._genes = self._genes.copy(), a new list object
CopiedGenes == Len(lists) + 1

\* chromosome.copy(), lines 102-106, 151-155, 201-205, 254-258
copy ==
  /\ copy_genes = 0
  /\ lists' = Append(lists, lists[self_genes])
  /\ copy_genes' = CopiedGenes
  /\ copy_variant' = variant
  /\ target' = "self"
  /\ raised' = "none"
  /\ UNCHANGED << variant, self_genes, rest >>

\* (mutation for C17: set_gene does not look for the value in the chromosome)
RefusedUnlessSetGene(class, op, genes, gene) ==
  CASE class = "Bit" ->
         IF op = "insert_gene"
           THEN (IF gene.type # "BitGene" THEN "ValueError" ELSE "none")
           ELSE (IF gene.type \notin {"NoneType", "bool"} THEN "ValueError" ELSE "none")
    [] class = "Integer" ->
         IF gene.type \notin {"NoneType", "int", "bool"} THEN "ValueError" ELSE "none"
    [] class = "Float" ->
         IF gene.type \notin {"float", "int", "bool"} THEN "ValueError" ELSE "none"
    [] class = "Permutation" ->
         IF gene.type \notin {"int", "bool"} THEN "ValueError"
         ELSE IF op # "set_gene" /\ contains(genes, gene) THEN "GaException"
         ELSE "none"

\* The checks add_gene, set_gene and insert_gene make on the allele before
\* they touch the list: the exception raised, or "none".  bool is a subclass
\* of int, so isinstance(True, int) holds.
\*   Bit         85-86, 90-91 (None or bool), 95-96 (a BitGene)
\*   Integer     134-135, 139-140, 144-145 (None or int)
\*   Float       184-185, 189-190, 194-195 (float or int)
\*   Permutation 228-233, 237-242, 246-251 (int, and not in the chromosome)
Refused(class, op, genes, gene) ==
  CASE class = "Bit" ->
         IF op = "insert_gene"
           THEN (IF gene.type # "BitGene" THEN "ValueError" ELSE "none")
           ELSE (IF gene.type \notin {"NoneType", "bool"} THEN "ValueError" ELSE "none")
    [] class = "Integer" ->
         IF gene.type \notin {"NoneType", "int", "bool"} THEN "ValueError" ELSE "none"
    [] class = "Float" ->
         IF gene.type \notin {"float", "int", "bool"} THEN "ValueError" ELSE "none"
    [] class = "Permutation" ->
         IF gene.type \notin {"int", "bool"} THEN "ValueError"
         ELSE IF contains(genes, gene) THEN "GaException"
         ELSE "none"

\* self._genes[index] = gene: the index is in range (negative ones count from
\* the end), and the 1-based position it names
ValidIndex(genes, index) == -Len(genes) <= index /\ index < Len(genes)
Position(genes, index) == IF index >= 0 THEN index + 1 ELSE Len(genes) + index + 1

\* self._genes.insert(index, gene): the index is clamped to the list
Inserted(genes, index, gene) ==
  LET n == Len(genes)
      i == IF index < 0 THEN (IF n + index < 0 THEN 0 ELSE n + index)
           ELSE (IF index > n THEN n ELSE index)
  IN  SubSeq(genes, 1, i) \o << gene >> \o SubSeq(genes, i + 1, n)

\* a call on chromosome t ends: with exception e, or with new as its gene list
Ended(t, e, new) ==
  /\ target' = t
  /\ raised' = e
  /\ lists' = IF e = "none" THEN [lists EXCEPT ![ListOf(t)] = new] ELSE lists
  /\ UNCHANGED << variant, self_genes, copy_genes, copy_variant, rest >>

\* add_gene(gene), lines 84-87, 133-136, 183-186, 236-243
add_gene(t, gene) ==
  /\ Len(Genes(t)) < MaxLen
  /\ Ended(t, Refused(VariantOf(t), "add_gene", Genes(t), gene),
           Append(Genes(t), gene))

\* set_gene(index, gene), lines 89-92, 138-141, 188-191, 227-234
set_gene(t, index, gene) ==
  LET refused == Refused(VariantOf(t), "set_gene", Genes(t), gene)
      e == IF refused # "none" THEN refused
           ELSE IF ~ValidIndex(Genes(t), index) THEN "IndexError"
           ELSE "none"
  IN  Ended(t, e, [Genes(t) EXCEPT ![Position(Genes(t), index)] = gene])

\* insert_gene(index, gene), lines 94-97, 143-146, 193-196, 245-252
insert_gene(t, index, gene) ==
  /\ Len(Genes(t)) < MaxLen
  /\ Ended(t, Refused(VariantOf(t), "insert_gene", Genes(t), gene),
           Inserted(Genes(t), index, gene))

\* chromosome[index] = value, lines 57-58: nothing is checked
setitem(t, index, value) ==
  Ended(t, IF ValidIndex(Genes(t), index) THEN "none" ELSE "IndexError",
        [Genes(t) EXCEPT ![Position(Genes(t), index)] = value])

\* chromosome.genes = genes, the property setters (80-82, 129-131, 179-181):
\* self._genes = genes, whatever list the caller passes; the chromosome then
\* refers to the caller's list, no longer to the one it had
set_genes(t, genes) == Ended(t, "none", genes)

\* the lists a caller assigns to the genes property
AssignedGenes == UNION { [1..n -> Inputs] : n \in 0..MaxLen }

CallAddGene == \E t \in Targets, gene \in Inputs : add_gene(t, gene)
CallSetGene ==
  \E t \in Targets, index \in Indices, gene \in Inputs : set_gene(t, index, gene)
CallInsertGene ==
  \E t \in Targets, index \in Indices, gene \in Inputs : insert_gene(t, index, gene)
CallSetItem ==
  \E t \in Targets, index \in Indices, value \in Inputs : setitem(t, index, value)

CallSetGenes == \E t \in Targets, genes \in AssignedGenes : set_genes(t, genes)

ChromosomeNext ==
  \/ copy
  \/ CallAddGene
  \/ CallSetGene
  \/ CallInsertGene
  \/ CallSetItem
  \/ CallSetGenes

ChromosomeSpec == ChromosomeInit /\ [][ChromosomeNext]_vars

\* ================================================================ crossover
\* The crossover operators (pynetgene/operators/crossover.py) are not among
\* the sources at hand, which hold their tests (tests/test_crossover.py); they
\* are modelled from section 4.2 of the specification: recombine(parent_a,
\* parent_b) -> Offspring.  One recombine call is made on two parents.

\* parents have at most MaxGenes genes
MaxGenes == 3

\* a chromosome: its class and its alleles
Chromosome(class, genes) == [variant |-> class, genes |-> genes]

\* the orders of the values of S
Shuffled(S) ==
  { g \in [1..Cardinality(S) -> S] :
      \A i, j \in 1..Cardinality(S) : g[i] = g[j] => i = j }

\* IntegerChromosome parents with alleles 0 and 1, and PermutationChromosome
\* parents: PermutationChromosome(size, start) holds start..start+size-1
\* shuffled
ParentChromosomes ==
  { Chromosome("Integer", g) : g \in UNION { [1..n -> 0..1] : n \in 0..MaxGenes } }
    \cup { Chromosome("Permutation", g) :
             g \in UNION { Shuffled(start..(start + n - 1)) :
                             n \in 0..MaxGenes, start \in 0..1 } }

\* the crossover points a caller passes to FixedPointCrossover
Points == -1..(MaxGenes + 1)

CrossoverInit ==
  /\ Idle
  /\ NoChromosome
  /\ NoSelection
  /\ first_parent \in ParentChromosomes
  /\ second_parent \in ParentChromosomes
  /\ operator = NoOperator
  /\ offspring = << >>
  /\ recombined = "none"

\* what a recombine call leaves alone: the engine, and the parents
others == << config, call, calls, run, chromosomes, selecting, first_parent,
            second_parent >>

\* "both parents' chromosomes must share length and variant"
Mismatch(a, b) == a.variant # b.variant \/ Len(a.genes) # Len(b.genes)

\* any index of the chromosome, and its length
AnyIndex(length) == 0..length

\* "one split index uniformly in [1, length-1]"
SplitIndices(length) == 1..(length - 1)

\* parent_a[:idx] + parent_b[idx:], gene by gene
Crossed(a, b, idx) ==
  Chromosome(a.variant, [i \in 1..Len(a.genes) |->
                           IF i <= idx THEN a.genes[i] ELSE b.genes[i]])

\* the Offspring carrier: one chromosome for an operator with a single
\* offspring, two otherwise
Offspring(op, first, second) ==
  IF op.single_offspring THEN << first >> ELSE << first, second >>

\* a recombine call on `op` ends: it returns `children`, or raises
Recombined(op, children, exception) ==
  /\ recombined = "none"
  /\ operator' = op
  /\ offspring' = children
  /\ recombined' = exception
  /\ UNCHANGED others

\* "a mismatch ... fails with a CrossoverError"
Fails(op) == Recombined(op, << >>, "CrossoverException")

\* offspring A = parent_a[:idx] + parent_b[idx:], offspring B the complement
SplitAt(op, idx) ==
  Recombined(op,
             Offspring(op, Crossed(first_parent, second_parent, idx),
                           Crossed(second_parent, first_parent, idx)),
             "returned")

\* OnePointCrossover(single_offspring).recombine(first_parent, second_parent)
OnePointRecombine ==
  \E single \in BOOLEAN :
    LET op == [name |-> "OnePointCrossover", single_offspring |-> single]
        indices == SplitIndices(Len(first_parent.genes))
    IN  IF Mismatch(first_parent, second_parent) \/ indices = {}
        THEN Fails(op)
        ELSE \E idx \in indices : SplitAt(op, idx)

\* FixedPointCrossover(idx).recombine(first_parent, second_parent): "same as
\* OnePoint but idx is a caller-supplied constant; fails if idx is out of range"
FixedPointRecombine ==
  \E single \in BOOLEAN, point \in Points :
    LET op == [name |-> "FixedPointCrossover", crossover_point |-> point,
               single_offspring |-> single]
    IN  IF \/ Mismatch(first_parent, second_parent)
           \/ point \notin SplitIndices(Len(first_parent.genes))
        THEN Fails(op)
        ELSE SplitAt(op, point)

\* the genes in their order
NotSkipping(genes, present) == genes

\* the genes in their relative order, "skipping values already present"
Skipping(genes, present) ==
  LET kept == { i \in 1..Len(genes) : genes[i] \notin present }
      \* the n-th kept index
      nth[n \in 1..Cardinality(kept)] ==
        CHOOSE i \in kept : Cardinality({ j \in kept : j <= i }) = n
  IN  [n \in 1..Cardinality(kept) |-> genes[nth[n]]]

\* "copies a random contiguous segment from parent_a into the offspring at the
\* same position, then fills remaining positions with parent_b's genes in their
\* relative order, skipping values already present": the segment is the
\* positions lo..hi
Order1(a, b, lo, hi) ==
  LET segment == { a.genes[i] : i \in lo..hi }
      fill == Skipping(b.genes, segment)
      \* the remaining positions, counted from the left
      Rank(i) == IF i < lo THEN i ELSE i - (hi - lo + 1)
  IN  Chromosome(a.variant, [i \in 1..Len(a.genes) |->
                               IF lo <= i /\ i <= hi THEN a.genes[i]
                               ELSE fill[Rank(i)]])

\* the contiguous segments of a chromosome, as pairs of its first and last
\* position (none for an empty chromosome, whose offspring is empty)
Segments(length) ==
  IF length = 0 THEN { << 1, 0 >> }
  ELSE { s \in (1..length) \X (1..length) : s[1] <= s[2] }

\* Order1Crossover(single_offspring).recombine(first_parent, second_parent) on
\* permutation chromosomes, the only ones section 4.2 describes it for; the
\* second offspring is built from the second parent's segment in the same way
Order1Recombine ==
  /\ first_parent.variant = "Permutation"
  /\ second_parent.variant = "Permutation"
  /\ \E single \in BOOLEAN :
       LET op == [name |-> "Order1Crossover", single_offspring |-> single]
           segments == Segments(Len(first_parent.genes))
       IN  IF Mismatch(first_parent, second_parent)
           THEN Fails(op)
           ELSE \E s, t \in segments :
                  Recombined(op,
                             Offspring(op,
                                       Order1(first_parent, second_parent, s[1], s[2]),
                                       Order1(second_parent, first_parent, t[1], t[2])),
                             "returned")

CrossoverNext ==
  \/ OnePointRecombine
  \/ FixedPointRecombine
  \/ Order1Recombine

CrossoverSpec == CrossoverInit /\ [][CrossoverNext]_vars

\* ================================================================ selection
\* The parent selectors (pynetgene/operators/selection.py) are not among the
\* sources at hand, which hold their tests (tests/test_selection.py); they are
\* modelled from section 4.1 of the specification: select(population) ->
\* Individual, select_parents(population) -> (Individual, Individual).  One
\* call is made on one selector; an individual is its position in the
\* population, the population maps positions to fitness values.

\* populations have at most MaxIndividuals individuals
MaxIndividuals == 3

\* the fitness values of create_population_with_fitness, positive as in the
\* tests
Fitnesses == 1..2

SelectorClasses ==
  {"RandomSelector", "RouletteSelector", "RankSelector", "TournamentSelector",
   "CompetitionSelector"}

\* the selector objects a caller builds: a class, the incest_prevention flag
\* and, for a tournament, its size
SelectorObjects ==
  { [name |-> c, incest_prevention |-> f, tournament_size |-> k] :
      c \in SelectorClasses, f \in BOOLEAN, k \in 1..(MaxIndividuals + 1) }

SelectionInit ==
  /\ Idle
  /\ NoChromosome
  /\ NoCrossover
  /\ selector \in { o \in SelectorObjects :
                     o.name = "TournamentSelector" \/ o.tournament_size = 1 }
  /\ individuals \in UNION { [1..n -> Fitnesses] : n \in 0..MaxIndividuals }
  /\ called = "none"
  /\ selected = << >>
  /\ selection = "idle"
  /\ retried = FALSE

\* what a selector call leaves alone: "selection never mutates the population
\* or individuals"
unselected == << config, call, calls, run, chromosomes, crossing, selector,
                individuals >>

\* "Fails with a SelectionError if the population is empty, or if a
\* strategy-specific precondition is violated (e.g., tournament size exceeds
\* population size ...)"
Refuses(sel, pop) ==
  \/ Len(pop) = 0
  \/ sel.name = "TournamentSelector" /\ sel.tournament_size > Len(pop)

\* the best of a set of positions: ties are broken at random
Best(pop, drawn) == { i \in drawn : \A j \in drawn : pop[j] <= pop[i] }

\* the individuals one select(population) may return.  Random, Roulette (all
\* fitness values are positive) and Rank give every individual a chance;
\* Tournament(k) draws k individuals "without replacement within one
\* tournament" and returns the best; Competition returns the winner of a
\* contest between two drawn individuals.
Candidates(sel, pop) ==
  LET positions == 1..Len(pop)
  IN  CASE sel.name = "TournamentSelector" ->
             UNION { Best(pop, drawn) :
                       drawn \in { d \in SUBSET positions :
                                     Cardinality(d) = sel.tournament_size } }
        [] sel.name = "CompetitionSelector" ->
             IF Len(pop) = 1 THEN positions
             ELSE UNION { Best(pop, {pair[1], pair[2]}) :
                            pair \in { q \in positions \X positions :
                                         q[1] # q[2] } }
        [] OTHER -> positions

\* any two parents will do
AnyParents(sel) == FALSE

\* whether select_parents needs two distinct individuals: with incest
\* prevention, and for a tournament ("select_parents (which needs two distinct
\* individuals)")
NeedsDistinct(sel) == sel.incest_prevention \/ sel.name = "TournamentSelector"

\* select_parents refuses what select refuses
RefusesAsSelect(sel, pop) == Refuses(sel, pop)

\* "population size is 1 while two distinct parents are required"
RefusesParents(sel, pop) ==
  Refuses(sel, pop) \/ (NeedsDistinct(sel) /\ Len(pop) = 1)

\* a selector call ends with a SelectionException
SelectionFails(method) ==
  /\ selection = "idle"
  /\ called' = method
  /\ selection' = "SelectionException"
  /\ UNCHANGED << selected, retried, unselected >>

\* selector.select(population)
Select ==
  IF Refuses(selector, individuals) THEN SelectionFails("select")
  ELSE /\ selection = "idle"
       /\ called' = "select"
       /\ \E i \in Candidates(selector, individuals) : selected' = << i >>
       /\ selection' = "returned"
       /\ UNCHANGED << retried, unselected >>

\* selector.select_parents(population): the two parents are drawn
DrawParents ==
  IF RefusesParents(selector, individuals) THEN SelectionFails("select_parents")
  ELSE /\ selection = "idle"
       /\ called' = "select_parents"
       /\ \E i, j \in Candidates(selector, individuals) : selected' = << i, j >>
       /\ selection' = "drawn"
       /\ UNCHANGED << retried, unselected >>

\* "retry until the two selected individuals are distinct objects"
Retry ==
  /\ selection = "drawn"
  /\ NeedsDistinct(selector)
  /\ selected[1] = selected[2]
  /\ \E i, j \in Candidates(selector, individuals) : selected' = << i, j >>
  /\ retried' = TRUE
  /\ UNCHANGED << called, selection, unselected >>

\* select_parents returns the two parents drawn
ReturnParents ==
  /\ selection = "drawn"
  /\ NeedsDistinct(selector) => selected[1] # selected[2]
  /\ selection' = "returned"
  /\ UNCHANGED << called, selected, retried, unselected >>

SelectionNext ==
  \/ Select
  \/ DrawParents
  \/ Retry
  \/ ReturnParents

SelectionSpec == SelectionInit /\ [][SelectionNext]_vars

\* ================================================================ claims
\* evolve is between two generation steps, or has returned
Between == {"check", "track", "returned"}

\* a generation step is in progress
InStep == {"reproduce", "mutate", "evaluate"}

\* C1 (as claimed): with elitism off, or 0 <= elitism_size <= N, the population
\* holds exactly the N individuals of the initial population after every
\* completed generation step and when evolve returns.
C1_PopulationSizeConstant ==
  (pc \in Between /\ (~elitism \/ elitism_size <= initial_size))
    => Len(population) = initial_size

\* C2 (as claimed): with elitism on and elitism_size within the population
\* size, the elite individuals taken at the start of a generation step are in
\* the population after the step with the chromosomes they had before it.
C2_ElitesCarriedUnchanged ==
  (pc \in Between /\ steps > 0 /\ elitism
     /\ Len(elite_individuals) = elitism_size)
    => \A k \in 1..Len(elite_individuals) :
         /\ elite_individuals[k] \in Range(population)
         /\ chromosome[elite_individuals[k]] = elite_chromosomes[k]

\* C3 (as claimed): evolve never completes a generation step, nor returns,
\* with a population smaller than the initial population (failed reproduction
\* attempts make it raise instead).
C3_NeverUndersized ==
  pc \in Between => Len(population) >= initial_size

\* C4: from a generation counter of 0, with max_generation = M and the target
\* fitness never reached, evolve returns after exactly M generation steps with
\* population.generation = M.
C4_MaxGenerationSteps ==
  (pc = "returned" /\ initial_generation = 0 /\ reached_at = -1)
    => (steps = max_generation /\ generation = max_generation)

C4_Witness ==
  /\ pc = "returned"
  /\ initial_generation = 0
  /\ reached_at = -1
  /\ steps = 2
  /\ max_generation = 2

C7_EvaluationBarrier ==
  (\E i \in 1..Len(tasks) : tasks[i].state # "done") => pc = "evaluate"

C7_Witness ==
  /\ pc = "evaluate"
  /\ \E i \in 1..Len(tasks) : tasks[i].state = "done"
  /\ \E i \in 1..Len(tasks) : tasks[i].state = "running"

\* C8 (as claimed): in a completed generation step the fitness callback has
\* been invoked exactly once on every individual object of the new population.
C8_EvaluatedExactlyOnce ==
  (pc \in Between /\ steps > 0)
    => \A i \in Range(population) : evaluations[i] = 1

\* C9 (as claimed): whenever evolve has exited, by returning or by an
\* exception, the engine's worker pool has been shut down.
C9_ShutdownOnEveryExit ==
  pc \in {"returned", "raised"} => executor_shutdown

\* C10 (as claimed): never more fitness callbacks run at once than n_threads.
C10_BoundedByWorkerCount ==
  Cardinality(Running) <= n_threads

\* C11: with a tracker set, the tracker has been called exactly once for each
\* completed generation step (never for the initial population, never after
\* the stop check that ends the loop), and without one never; when it is
\* called every fitness callback of the step has finished, the population is
\* sorted, the counter is incremented, and the GenerationResult it receives
\* carries the new counter value and the first individual of the sorted
\* population with that individual's fitness.
C11_TrackerOncePerGeneration ==
  /\ tracked = IF generation_tracker
                 THEN (IF pc = "track" THEN steps - 1 ELSE steps)
                 ELSE 0
  /\ pc = "track"
       => /\ \A i \in 1..Len(tasks) : tasks[i].state = "done"
          /\ \A i \in 1..Len(population) : \A j \in i..Len(population) :
               fitness[population[i]] >= fitness[population[j]]
          /\ generation = initial_generation + steps
          /\ result.generation_number = generation
          /\ result.best_individual = population[1]
          /\ result.best_fitness = fitness[population[1]]

C11_Witness ==
  /\ pc = "track"
  /\ steps = 2
  /\ tracked = 1
  /\ Len(population) = 2
  /\ result.best_fitness = 1
  /\ result.generation_number = initial_generation + 2

\* C12 (as claimed): with elitism on and elitism_size greater than the size of
\* the population passed in, evolve completes no generation step and the
\* population stays the one passed in.
C12_OversizedElitismFailsFast ==
  (elitism /\ elitism_size > initial_size)
    => /\ steps = 0
       /\ population = [i \in 1..initial_size |-> i]

\* the arguments C13 names are in range
ValidArgs(a) ==
  /\ 0 < a.mutation_rate /\ a.mutation_rate <= 100
  /\ 0 < a.crossover_rate /\ a.crossover_rate <= 100
  /\ a.elitism_size >= 0
  /\ a.max_generation >= 1
  /\ a.n_threads >= 1

\* each operator argument is None or an operator of its family
ValidOperators(a) ==
  /\ a.parent_selector \in Selectors \cup {None}
  /\ a.crossover_operator \in Crossovers \cup {None}
  /\ a.mutator_operator \in Mutators \cup {None}

\* C13 (as claimed): a constructor call, through GeneticConfiguration or
\* directly through GeneticAlgorithm, with crossover_rate or mutation_rate
\* outside (0, 1], elitism_size < 0, max_generation < 1 or a worker count < 1
\* ends with a GaException; with valid arguments it returns an engine that
\* holds exactly the values passed.
C13_InvalidConfigurationRejected ==
  call.op \in {"GeneticConfiguration", "GeneticAlgorithm"}
    => IF ValidArgs(call.arg)
         THEN (ValidOperators(call.arg) /\ IsBool(call.arg.elitism))
                => /\ call.raised = "none"
                   /\ mutation_rate = call.arg.mutation_rate
                   /\ crossover_rate = call.arg.crossover_rate
                   /\ elitism_size = call.arg.elitism_size
                   /\ max_generation = call.arg.max_generation
                   /\ n_threads = call.arg.n_threads
         ELSE call.raised = "GaException"

\* C14 (as claimed): assigning the engine's mutation_rate a value outside
\* [0.0, 1.0] raises a GaException with the message 'Mutation rate must be
\* between 0.0 and 1.0', assigning elitism a non-boolean raises a GaException
\* with the message 'Elitism must be either True or False', and the stored
\* value stays; a valid value is stored.
C14_SetterRejectsWithGaException ==
  [][ /\ call'.op = "mutation_rate"
           => IF 0 <= call'.arg /\ call'.arg <= 100
                THEN call'.raised = "none" /\ mutation_rate' = call'.arg
                ELSE /\ call'.raised = "GaException"
                     /\ call'.message = "Mutation rate must be between 0.0 and 1.0"
                     /\ mutation_rate' = mutation_rate
      /\ call'.op = "elitism"
           => IF IsBool(call'.arg)
                THEN call'.raised = "none" /\ elitism' = (call'.arg = "True")
                ELSE /\ call'.raised = "GaException"
                     /\ call'.message = "Elitism must be either True or False"
                     /\ elitism' = elitism
    ]_vars

\* C15 (as claimed): a value that is no operator of the required family is
\* refused with a GaException by the engine's mutator_operator and
\* crossover_operator setters and by GeneticConfiguration's parent_selector,
\* crossover_operator and mutator_operator arguments, and the operator
\* configured before stays; an operator of the family is stored as it is.
C15_OperatorTypeChecked ==
  [][ /\ call'.op = "mutator_operator"
           => IF call'.arg \in Mutators
                THEN call'.raised = "none" /\ mutator_operator' = call'.arg
                ELSE call'.raised = "GaException"
                       /\ mutator_operator' = mutator_operator
      /\ call'.op = "crossover_operator"
           => IF call'.arg \in Crossovers
                THEN call'.raised = "none" /\ crossover_operator' = call'.arg
                ELSE call'.raised = "GaException"
                       /\ crossover_operator' = crossover_operator
      /\ call'.op = "GeneticConfiguration"
           => /\ ~ValidOperators(call'.arg)
                   => /\ call'.raised = "GaException"
                      /\ UNCHANGED << parent_selector, crossover_operator,
                                      mutator_operator >>
              /\ (call'.raised = "none" /\ call'.arg.parent_selector # None)
                   => parent_selector' = call'.arg.parent_selector
              /\ (call'.raised = "none" /\ call'.arg.crossover_operator # None)
                   => crossover_operator' = call'.arg.crossover_operator
              /\ (call'.raised = "none" /\ call'.arg.mutator_operator # None)
                   => mutator_operator' = call'.arg.mutator_operator
    ]_vars

\* C16 (as claimed): set_generation_tracker(None) and
\* set_custom_stop_condition(None) raise a ValueError with the message
\* 'Object cannot be None' and leave the tracker and the list of stop
\* conditions as they were; a tracker that is not None is stored and a stop
\* condition that is not None is appended.
C16_NoneRefused ==
  [][ /\ call'.op = "set_generation_tracker"
           => IF call'.arg = None
                THEN /\ call'.raised = "ValueError"
                     /\ call'.message = "Object cannot be None"
                     /\ UNCHANGED << generation_tracker, custom_stop_conditions >>
                ELSE call'.raised = "none" /\ generation_tracker'
      /\ call'.op = "set_custom_stop_condition"
           => IF call'.arg = None
                THEN /\ call'.raised = "ValueError"
                     /\ call'.message = "Object cannot be None"
                     /\ UNCHANGED << generation_tracker, custom_stop_conditions >>
                ELSE /\ call'.raised = "none"
                     /\ custom_stop_conditions' =
                          Append(custom_stop_conditions, call'.arg)
    ]_vars

\* the integer alleles a caller passes
IntInputs == { g \in Inputs : g.type = "int" }

\* some allele of the chromosome equals the value
Present(genes, gene) == \E i \in 1..Len(genes) : genes[i].v = gene.v

\* C17: on a PermutationChromosome, add_gene, insert_gene and set_gene (at an
\* index of the chromosome) with an integer value already in the chromosome
\* raise a GaException and leave the gene sequence as it was; with an integer
\* value not in it they return, and the sequence is the old one with exactly
\* that value appended, inserted, or put at the index.
C17_PermutationRefusesDuplicates ==
  [][ \A t \in {"self", "copy"} :
      (t = target' /\ VariantOf(t) = "Permutation")
        => LET old == Genes(t)
               new == Genes(t)'
               refused == raised' = "GaException" /\ new = old
           IN  \A gene \in IntInputs :
                 /\ add_gene(t, gene)
                      => IF Present(old, gene) THEN refused
                         ELSE raised' = "none" /\ new = Append(old, gene)
                 /\ \A index \in Indices :
                      /\ insert_gene(t, index, gene)
                           => IF Present(old, gene) THEN refused
                              ELSE /\ raised' = "none"
                                   /\ Len(new) = Len(old) + 1
                                   /\ \E p \in 1..Len(new) :
                                        /\ new[p] = gene
                                        /\ \A q \in 1..Len(old) :
                                             old[q] = new[IF q < p THEN q ELSE q + 1]
                      /\ (set_gene(t, index, gene)
                            /\ -Len(old) <= index /\ index < Len(old))
                           => IF Present(old, gene) THEN refused
                              ELSE /\ raised' = "none"
                                   /\ Len(new) = Len(old)
                                   /\ LET p == IF index >= 0 THEN index + 1
                                               ELSE Len(old) + index + 1
                                      IN  \A q \in 1..Len(old) :
                                            new[q] = IF q = p THEN gene ELSE old[q]
    ]_vars

C17_Witness ==
  /\ variant = "Permutation"
  /\ raised = "GaException"
  /\ Len(lists[self_genes]) = 2
  /\ copy_genes = 0

\* C18: copy() returns a chromosome of the same variant with an equal gene
\* sequence, for each of the four variants; afterwards no add_gene, set_gene,
\* insert_gene or index assignment on the copy changes the gene sequence of
\* the original, and none on the original changes that of the copy.
C18_CopyIsIndependent ==
  [][ /\ (copy_genes = 0 /\ copy_genes' # 0)
           => /\ copy_variant' = variant
              /\ lists'[copy_genes'] = lists[self_genes]
              /\ lists'[self_genes'] = lists[self_genes]
      /\ (copy_genes # 0 /\ target' = "copy")
           => lists'[self_genes'] = lists[self_genes]
      /\ (copy_genes # 0 /\ target' = "self")
           => lists'[copy_genes'] = lists[copy_genes]
    ]_vars

C18_Witness ==
  /\ copy_genes # 0
  /\ copy_variant = "Float"
  /\ raised = "none"
  /\ Len(lists[self_genes]) = 2
  /\ Len(lists[copy_genes]) = 1

\* the alleles of the parents and of the offspring a call returned
ParentA == first_parent.genes
ParentB == second_parent.genes

\* offspring_A = parent_A[:k] + parent_B[k:] and, where the operator returned
\* a second offspring, offspring_B = parent_B[:k] + parent_A[k:]
SplitBy(k, children) ==
  LET L == Len(ParentA)
  IN  /\ Len(children) \in {1, 2}
      /\ children[1].genes = SubSeq(ParentA, 1, k) \o SubSeq(ParentB, k + 1, L)
      /\ Len(children) = 2
           => children[2].genes = SubSeq(ParentB, 1, k) \o SubSeq(ParentA, k + 1, L)

\* C19: every OnePointCrossover call that returns, on two parents of equal
\* length L, returns offspring_A = parent_A[:k] + parent_B[k:] and offspring_B
\* = parent_B[:k] + parent_A[k:] for one split index k in [1, L-1] (offspring_A
\* alone when the operator has a single offspring); a FixedPointCrossover(k)
\* call that returns gives the same for the caller's k; the parents'
\* chromosomes are as they were before the call.
C19_OnePointSplitsAtOneIndex ==
  [][ recombined' # "none"
        => /\ first_parent' = first_parent
           /\ second_parent' = second_parent
           /\ (operator'.name = "OnePointCrossover" /\ recombined' = "returned")
                => /\ Len(ParentA) = Len(ParentB)
                   /\ \E k \in 1..(Len(ParentA) - 1) : SplitBy(k, offspring')
           /\ (operator'.name = "FixedPointCrossover" /\ recombined' = "returned")
                => /\ Len(ParentA) = Len(ParentB)
                   /\ SplitBy(operator'.crossover_point, offspring')
    ]_vars

C19_Witness ==
  /\ recombined = "returned"
  /\ operator.name = "OnePointCrossover"
  /\ Len(ParentA) = 3
  /\ Len(offspring) = 2
  /\ offspring[1].genes \notin {ParentA, ParentB}
  /\ offspring[2].genes \notin {ParentA, ParentB}

\* the values of a gene sequence
Values(genes) == { genes[i] : i \in 1..Len(genes) }

\* C20: every offspring of an Order1Crossover call on two permutation
\* chromosomes over the same value set holds each value of that set at exactly
\* one position, and nothing else.
C20_Order1KeepsPermutation ==
  ( /\ recombined = "returned"
    /\ operator.name = "Order1Crossover"
    /\ Values(ParentA) = Values(ParentB) )
    => \A n \in 1..Len(offspring) :
         LET genes == offspring[n].genes
         IN  /\ Len(genes) = Len(ParentA)
             /\ \A v \in Values(ParentA) :
                  Cardinality({ i \in 1..Len(genes) : genes[i] = v }) = 1

C20_Witness ==
  /\ recombined = "returned"
  /\ operator.name = "Order1Crossover"
  /\ Len(ParentA) = 3
  /\ Values(ParentA) = Values(ParentB)
  /\ Len(offspring) = 2
  /\ offspring[1].genes \notin {ParentA, ParentB}

\* C21: select_parents of a Tournament, Rank, Roulette or Competition selector
\* with incest_prevention enabled, on a population of two or more individuals,
\* never returns the same individual as both parents.
C21_IncestPrevented ==
  ( /\ selection = "returned"
    /\ called = "select_parents"
    /\ selector.incest_prevention
    /\ selector.name \in {"TournamentSelector", "RankSelector",
                          "RouletteSelector", "CompetitionSelector"}
    /\ Len(individuals) >= 2 )
    => selected[1] # selected[2]

C21_Witness ==
  /\ selection = "returned"
  /\ called = "select_parents"
  /\ selector.incest_prevention
  /\ selector.name = "RankSelector"
  /\ Len(individuals) = 3
  /\ retried

\* C22: TournamentSelector(k).select on a population of fewer than k
\* individuals ends with a SelectionException, TournamentSelector(1)
\* .select_parents on a population of one individual ends with a
\* SelectionException without drawing, and no call changes the population.
C22_TournamentPreconditions ==
  [][ /\ individuals' = individuals
      /\ selector.name = "TournamentSelector"
           => /\ (called' = "select"
                    /\ Len(individuals) < selector.tournament_size)
                   => selection' = "SelectionException"
              /\ (called' = "select_parents"
                    /\ selector.tournament_size = 1 /\ Len(individuals) = 1)
                   => selection' = "SelectionException"
    ]_vars

C22_Witness ==
  /\ selection = "SelectionException"
  /\ called = "select_parents"
  /\ selector.name = "TournamentSelector"
  /\ selector.tournament_size = 1
  /\ Len(individuals) = 1

\* C23 (as claimed): at every stop-condition check, the first included, the
\* fitness callback has been invoked on every individual of the population and
\* the population is sorted by descending fitness, so the check reads the
\* fitness of the best individual.
C23_EvaluatedBeforeFirstCheck ==
  pc = "check"
    => /\ \A i \in Range(population) : evaluations[i] >= 1
       /\ \A i \in Range(population) :
            fitness[i] <= fitness[get_best_individual(population)]

\* C24: a SelectionException, CrossoverException or MutatorException raised by
\* an operator call of a reproduction attempt or of the mutation loop does not
\* leave the generation step: the step goes on, the attempt has added no
\* offspring and the individual's chromosome is as it was; a chromosome's
\* GaException raised in such a call leaves the step and evolve.
C24_OperatorFailuresContained ==
  [][ (pc \in {"reproduce", "mutate"} /\ thrown' # "none")
        => /\ thrown' \in {"SelectionException", "CrossoverException",
                           "MutatorException"}
                => /\ pc' \in {"reproduce", "mutate"}
                   /\ individual_stream' = individual_stream
                   /\ chromosome' = chromosome
           /\ thrown' = "GaException" => pc' = "raised"
           /\ pc' = "raised" => thrown' = "GaException"
    ]_vars

C24_Witness ==
  /\ pc = "raised"
  /\ thrown = "GaException"
  /\ steps = 1
  /\ attempt = 1
  /\ Len(individual_stream) = 1

\* C25 (as claimed): the alleles of a PermutationChromosome built by its
\* constructor are pairwise distinct after every sequence of add_gene,
\* set_gene, insert_gene, index assignment and genes assignment.
C25_PermutationStaysDistinct ==
  variant = "Permutation"
    => LET genes == lists[self_genes]
       IN  \A i, j \in 1..Len(genes) : PyEq(genes[i], genes[j]) => i = j

\* the allele types of a variant: booleans for Bit, integers for Integer (bool
\* is a subclass of int), numbers for Float
AlleleTypes(class) ==
  CASE class = "Bit" -> {"bool"}
    [] class = "Integer" -> {"int", "bool"}
    [] class = "Float" -> {"float", "int", "bool"}
    [] OTHER -> {}

\* C26 (as claimed): an add_gene, set_gene or insert_gene call on a Bit,
\* Integer or Float chromosome that returns has stored an allele of the
\* variant's type, never None, and insert_gene and set_gene accept an allele
\* exactly when add_gene accepts it.
C26_AlleleTypeMatchesVariant ==
  [][ \A t \in {"self", "copy"} :
      (t = target' /\ VariantOf(t) \in {"Bit", "Integer", "Float"})
        => \A gene \in Inputs :
             LET accepted ==
                   Refused(VariantOf(t), "add_gene", Genes(t), gene) = "none"
             IN  /\ (add_gene(t, gene) /\ raised' = "none")
                      => gene.type \in AlleleTypes(VariantOf(t))
                 /\ \A index \in Indices :
                      /\ (set_gene(t, index, gene) /\ raised' = "none")
                           => gene.type \in AlleleTypes(VariantOf(t))
                      /\ (insert_gene(t, index, gene) /\ raised' = "none")
                           => gene.type \in AlleleTypes(VariantOf(t))
                      /\ insert_gene(t, index, gene)
                           => (accepted <=> raised' = "none")
                      /\ (set_gene(t, index, gene) /\ ValidIndex(Genes(t), index))
                           => (accepted <=> raised' = "none")
    ]_vars

\* C27 (as claimed): assigning crossover_rate a value in [0.0, 1.0] stores it
\* as the engine's crossover rate, the one _crossover reads, and leaves
\* mutation_rate as it was; a value outside the range raises an error and
\* leaves both rates as they were.
C27_CrossoverRateSetter ==
  [][ call'.op = "crossover_rate"
        => IF 0 <= call'.arg /\ call'.arg <= 100
             THEN /\ call'.raised = "none"
                  /\ crossover_rate' = call'.arg
                  /\ mutation_rate' = mutation_rate
             ELSE /\ call'.raised # "none"
                  /\ crossover_rate' = crossover_rate
                  /\ mutation_rate' = mutation_rate
    ]_vars

\* C28 (as claimed): a mutation_rate or mutator_operator setter call that
\* returns, on an engine whose mutation rate is that of its mutator operator,
\* leaves an engine whose mutation rate is that of its mutator operator.
C28_MutatorRateInSync ==
  [][ ( /\ call'.op \in {"mutation_rate", "mutator_operator"}
        /\ call'.raised = "none"
        /\ mutator_operator \in Mutators
        /\ mutator_operator' \in Mutators
        /\ mutation_rate = mutator_rates[mutator_operator] )
        => mutation_rate' = mutator_rates'[mutator_operator']
    ]_vars

C30_FitnessErrorPropagates ==
  [][ (thrown = "Exception" /\ pc = "evaluate") => pc' \in {"evaluate", "raised"}
    ]_vars

====
